---- MODULE Spec2Model ----
(***************************************************************************)
(* crypto_bot.py: the in-memory per-user store (user_alerts,               *)
(* user_portfolio, user_favorites, user_balance), the periodic alert       *)
(* evaluator check_alerts and the deposit / pre-checkout / payment         *)
(* handlers.                                                               *)
(*                                                                         *)
(* Scheduling.  Everything runs on one asyncio event loop.  A coroutine    *)
(* gives up control only at an await; every handler of the bot mutates the *)
(* store between two awaits (get_crypto_price is a blocking call), so a    *)
(* handler is one atomic step.  check_alerts awaits send_message inside    *)
(* its loops: it is a process with a position (ev_pc), and handlers run    *)
(* only while it is idle or suspended on a send.                           *)
(*                                                                         *)
(* Numbers.  Prices and quantities are small integers.  Money is counted   *)
(* in hundredths of a currency unit (the gateway's minor unit), so that    *)
(* total_amount / 100.0 is exactly the count of hundredths.                *)
(*                                                                         *)
(* Workloads.  No handler reads or writes a dict of another family         *)
(* (alerts, portfolio, favorites, payments).  A run fixes in `workload`    *)
(* the family whose commands its users send; the evaluator ticks in every  *)
(* run.  Spec is all runs, SpecAlerts and SpecPayments the runs of one     *)
(* family.                                                                 *)
(***************************************************************************)
EXTENDS Integers, Sequences, FiniteSets, Bags, TLC

\* ------------------------------------------------------------------ bounds
Users == {1, 2}
MaxAlerts == 2          \* alerts the store may hold at once, over all users
MaxQuantity == 2        \* how far a holding may get from 0, and from 2^53
MaxBalance == 350       \* largest balance, in hundredths
Prices == {0, 1, 2}     \* the 'usd' values a quote may carry
Totals == {100, 250}    \* total_amount of a payment confirmation (minor units)
Times == {0, 1}         \* int(datetime.now().timestamp()) of a /deposit
NoUser == 0             \* no user: the evaluator is between users

VARIABLES
    user_alerts,        \* dict user_id -> list of alerts
    alerts_keys,        \* the keys of user_alerts in the dict's (insertion) order
    user_portfolio,     \* dict user_id -> dict crypto_id -> quantity
    user_favorites,     \* dict user_id -> list of crypto_id
    user_balance,       \* dict user_id -> balance, in hundredths
    CLICK_PROVIDER_TOKEN, \* whether the environment sets the provider token
    ev_pc,              \* check_alerts: "idle" | "users" | "alerts" | "send"
    ev_iter,            \* the iterator of user_alerts.items()
    ev_user,            \* user_id of the outer loop
    ev_detached,        \* the loop's `alerts` list is no longer in user_alerts
    ev_snap,            \* what is left of the copy alerts[:]
    ev_alert,           \* alert of the inner loop (while sending)
    ev_queried,         \* history: this tick has called get_crypto_price
    out,                \* the calls the last step made on the outside world
    workload,           \* the feature the users of this run are using
    settled,            \* history: user_id -> bag of the totals confirmed
    accepted,           \* history: a pre-checkout has been answered ok=True
    paid,               \* history: the payload of the confirmation, when the
                        \* last step handled one
    sw_pre,             \* history: the user's alerts when the sweep reached them
    sw_gone,            \* history: bag of the user's alerts deleted by
                        \* /delalert or delivered since then
    sw_created          \* history: /alert stored an alert for the user since then

alertVars == <<user_alerts, alerts_keys>>
otherStores == <<user_portfolio, user_favorites, user_balance, settled>>
evVars == <<ev_pc, ev_iter, ev_user, ev_detached, ev_snap, ev_alert, ev_queried>>
payHist == <<accepted, paid>>
histVars == <<sw_pre, sw_gone, sw_created>>
config == <<CLICK_PROVIDER_TOKEN, workload>>
vars == <<user_alerts, alerts_keys, user_portfolio, user_favorites, user_balance,
          CLICK_PROVIDER_TOKEN, ev_pc, ev_iter, ev_user, ev_detached, ev_snap,
          ev_alert, ev_queried, out, workload, settled, accepted, paid,
          sw_pre, sw_gone, sw_created>>

\* no payment confirmation: a sequence that is no payload
NoPayload == <<"none">>

\* ------------------------------------------------------- python containers
\* a faulty assignment, which writes v under every key of the dict
Put_everyone(d, k, v) == [x \in (DOMAIN d) \cup {k} |-> v]

\* d[k] = v on a dict
Put(d, k, v) == [x \in (DOMAIN d) \cup {k} |-> IF x = k THEN v ELSE d[x]]

\* a faulty del, which empties the dict
Del_clears(d, k) == << >>

\* a faulty del, which keeps the key with an empty list
Del_keeps_key(d, k) == [x \in DOMAIN d |-> IF x = k THEN << >> ELSE d[x]]

\* del d[k]
Del(d, k) == [x \in (DOMAIN d) \ {k} |-> d[x]]

EmptyDict == << >>

\* a faulty membership test, which only asks whether the dict has any key
HasKey_nonempty(d, k) == DOMAIN d # {}

\* k in dict
HasKey(d, k) == k \in DOMAIN d

\* faulty pops: one also drops what follows the element, one takes the
\* 1-based number for the 0-based index
RemoveAt_drops_tail(s, i) == SubSeq(s, 1, i - 1)

RemoveAt_zero_based(s, i) == SubSeq(s, 1, i) \o SubSeq(s, i + 2, Len(s))

\* list.pop(i - 1): the list without its i-th element (i is 1-based here)
RemoveAt(s, i) == SubSeq(s, 1, i - 1) \o SubSeq(s, i + 1, Len(s))

\* a faulty membership test, which looks at the last element only
Contains_last(s, x) == s # << >> /\ s[Len(s)] = x

\* x in list
Contains(s, x) == \E i \in 1..Len(s) : s[i] = x

\* list.index(x) + 1, for a list that contains x
IndexOf(s, x) == CHOOSE i \in 1..Len(s) : s[i] = x /\ \A j \in 1..(i - 1) : s[j] # x

\* list.remove(x) on a list that contains x: the first equal element goes
ListRemove(s, x) == RemoveAt(s, IndexOf(s, x))

\* A dict keeps its keys in insertion order: a new key goes last, a deleted
\* key leaves the order, and a key deleted and set again goes last.
KeysInsert(keys, k) == Append(keys, k)

KeysDelete(keys, k) == SelectSeq(keys, LAMBDA x : x # k)

\* The suffixes of a sequence, the sequence itself included
Suffixes(s) == {SubSeq(s, i, Len(s)) : i \in 1..(Len(s) + 1)}

\* ------------------------------------------------------------ price oracle
\* get_crypto_price: None on any request error, else the JSON object, in
\* which the asset may be absent, or present with or without a 'usd' field.
QuoteResults ==
    {[kind |-> k, usd |-> 0] : k \in {"none", "absent", "nousd"}}
        \cup {[kind |-> "usd", usd |-> p] : p \in Prices}

\* a faulty test, which only asks whether the fetch returned something
HasQuote_fetched(q) == q.kind # "none"

\* `price_data and crypto_id in price_data`
HasQuote(q) == q.kind \in {"nousd", "usd"}

CRYPTO_IDS == [bitcoin |-> "btc", ethereum |-> "eth"]

find_crypto_id(crypto_input) ==
    IF \E cid \in DOMAIN CRYPTO_IDS : crypto_input = cid \/ crypto_input = CRYPTO_IDS[cid]
        THEN CHOOSE cid \in DOMAIN CRYPTO_IDS :
                 crypto_input = cid \/ crypto_input = CRYPTO_IDS[cid]
        ELSE crypto_input

\* A Python float is an IEEE 754 double. The numbers of the model are the
\* doubles n and 2^53 + n for small integers n. TLC's integers end at 2^31,
\* so the model writes TwoTo53 + n for the number 2^53 + n: TwoTo53 stands
\* for 9007199254740992, the double from which on the doubles are 2 apart.
TwoTo53 == 1000

\* the double nearest to the number x, for 0 <= x < 2^54 and for small
\* negative x: below 2^53 every integer is a double; above, the even ones
\* are, and an odd one lies half way between two doubles and goes to the one
\* whose last mantissa bit is 0 (round half to even)
RoundToDouble(x) ==
    IF x <= TwoTo53 \/ (x - TwoTo53) % 2 = 0 THEN x
    ELSE IF (x - TwoTo53 + 1) % 4 = 0 THEN x + 1
    ELSE x - 1

\* x + y on floats: the exact sum, rounded once
FloatAdd(x, y) == RoundToDouble(x + y)

\* float(s), for the argument strings fed to the model; any other string
\* ("abc") raises ValueError
IsFloat(s) == s \in {"0", "1", "2", "-1", "9007199254740992"}

ParseFloat(s) == CASE s = "0" -> 0 [] s = "1" -> 1 [] s = "2" -> 2 [] s = "-1" -> -1
                   [] s = "9007199254740992" -> TwoTo53

\* str.isdigit(), for the same strings
IsDigit(s) == s \in {"0", "1", "2", "3"}

\* int(s) of a string of digits
ParseInt(s) == CASE s = "0" -> 0 [] s = "1" -> 1 [] s = "2" -> 2 [] s = "3" -> 3

\* update.message.reply_text(...), named by what it says
Reply(text) == [call |-> "reply_text", text |-> text]

\* dict.get(k, default), and the store's view of an absent user
Get(d, k, default) == IF k \in DOMAIN d THEN d[k] ELSE default

AlertsOf(u) == Get(user_alerts, u, << >>)

RECURSIVE SumLen(_, _)
SumLen(d, keys) ==
    IF keys = {} THEN 0
    ELSE LET k == CHOOSE x \in keys : TRUE IN Len(d[k]) + SumLen(d, keys \ {k})

TotalAlerts == SumLen(user_alerts, DOMAIN user_alerts)

Raise(error) == [call |-> "raise", error |-> error]

\* A handler runs only while check_alerts is not running: before a tick, or
\* while the tick is suspended in `await send_message`.
HandlersMayRun == ev_pc \in {"idle", "send"}

TickSuspended == ev_pc = "send"

\* ------------------------------------------------------------ /alert
\* the argument lists of /alert fed to the model
AlertArgs ==
    { <<"btc", "1", "above">>, <<"eth", "0", "below">>,
      <<"btc", "1">>, <<"btc", "abc", "above">>, <<"btc", "1", "up">> }

NewAlert(crypto_id, target_price, direction) ==
    [crypto_id |-> crypto_id, target_price |-> target_price, direction |-> direction]

\* user_alerts.items() is being iterated and a key is set that was not in the
\* dict: the key goes last, so the iterator still has it ahead; if the
\* insertion rebuilds the dict's table, entries the iterator had ahead may
\* move behind its position and are then never yielded.
AheadAfterInsert(ahead, k) == Suffixes(Append(ahead, k))

create_alert(user_id, args) ==
    /\ HandlersMayRun
    /\ workload = "alerts"
    /\ UNCHANGED <<otherStores, config, payHist, ev_pc, ev_user, ev_detached, ev_snap,
                   ev_alert, ev_queried>>
    /\ IF Len(args) < 3
         THEN /\ out' = <<Reply("usage")>>
              /\ UNCHANGED <<alertVars, ev_iter, histVars>>
       ELSE IF ~IsFloat(args[2])
         THEN /\ out' = <<Reply("bad_price")>>
              /\ UNCHANGED <<alertVars, ev_iter, histVars>>
       ELSE IF args[3] \notin {"above", "below"}
         THEN /\ out' = <<Reply("bad_direction")>>
              /\ UNCHANGED <<alertVars, ev_iter, histVars>>
       ELSE \E q \in QuoteResults :
            IF ~HasQuote(q)
         THEN /\ out' = <<Reply("not_found")>>
              /\ UNCHANGED <<alertVars, ev_iter, histVars>>
       ELSE LET crypto_id == find_crypto_id(args[1])
                isNew == user_id \notin DOMAIN user_alerts
                had == AlertsOf(user_id)
            IN  /\ alerts_keys' = IF isNew THEN KeysInsert(alerts_keys, user_id)
                                              ELSE alerts_keys
                /\ IF isNew /\ TickSuspended
                     THEN \E ahead \in AheadAfterInsert(ev_iter.ahead, user_id) :
                              ev_iter' = [ev_iter EXCEPT !.ahead = ahead]
                     ELSE UNCHANGED ev_iter
                /\ IF q.kind = "nousd"
                     \* price_data[crypto_id]['usd'] raises KeyError after the
                     \* user's list was created: nothing is appended
                     THEN /\ user_alerts' = Put(user_alerts, user_id, had)
                          /\ out' = <<Raise("KeyError")>>
                          /\ UNCHANGED histVars
                     ELSE /\ TotalAlerts < MaxAlerts
                          /\ user_alerts' = Put(user_alerts, user_id,
                                 Append(had, NewAlert(crypto_id, ParseFloat(args[2]), args[3])))
                          /\ out' = <<Reply("alert_created")>>
                          /\ IF TickSuspended /\ ev_user = user_id
                               THEN sw_created' = TRUE /\ sw_pre' = << >> /\ sw_gone' = EmptyBag
                               ELSE UNCHANGED <<sw_created, sw_pre, sw_gone>>

\* ------------------------------------------------------------ /delalert
DelArgs == { << >>, <<"x">>, <<"0">>, <<"1">>, <<"2">>, <<"3">> }

delete_alert(user_id, args) ==
    /\ HandlersMayRun
    /\ workload = "alerts"
    /\ IF args = << >> \/ ~IsDigit(args[1])
         THEN /\ out' = <<Reply("usage")>>
              /\ UNCHANGED <<alertVars, ev_iter, ev_detached, sw_gone>>
       ELSE LET alert_num == ParseInt(args[1]) - 1
            IN  IF \/ user_id \notin DOMAIN user_alerts
                   \/ alert_num < 0
                   \/ alert_num >= Len(user_alerts[user_id])
                  THEN /\ out' = <<Reply("alert_not_found")>>
                       /\ UNCHANGED <<alertVars, ev_iter, ev_detached, sw_gone>>
                  ELSE LET removed_alert == user_alerts[user_id][alert_num + 1]
                           rest == RemoveAt(user_alerts[user_id], alert_num + 1)
                       IN  /\ IF rest = << >>
                                THEN /\ user_alerts' = Del(user_alerts, user_id)
                                     /\ alerts_keys' = KeysDelete(alerts_keys, user_id)
                                     /\ ev_iter' = [ev_iter EXCEPT
                                            !.ahead = KeysDelete(ev_iter.ahead, user_id)]
                                     /\ ev_detached' =
                                            (ev_detached \/ (TickSuspended /\ ev_user = user_id))
                                ELSE /\ user_alerts' = Put(user_alerts, user_id, rest)
                                     /\ UNCHANGED <<alerts_keys, ev_iter, ev_detached>>
                           /\ out' = <<[call |-> "reply_text", text |-> "alert_deleted",
                                        alert |-> removed_alert]>>
                           /\ sw_gone' = IF TickSuspended /\ ev_user = user_id /\ ~sw_created
                                            THEN sw_gone (+) SetToBag({removed_alert})
                                            ELSE sw_gone
    /\ UNCHANGED <<otherStores, config, payHist, ev_pc, ev_user, ev_snap, ev_alert,
                   ev_queried, sw_pre, sw_created>>

\* /alerts: reads the user's alerts, changes nothing; a quote without 'usd'
\* makes line 842 raise KeyError
list_alerts(user_id) ==
    /\ HandlersMayRun
    /\ workload = "alerts"
    /\ IF AlertsOf(user_id) = << >>
         THEN out' = <<Reply("no_alerts")>>
         ELSE \E q \in QuoteResults :
                  out' = IF q.kind = "nousd" THEN <<Raise("KeyError")>>
                                            ELSE <<Reply("alerts")>>
    /\ UNCHANGED <<alertVars, otherStores, config, payHist, evVars, histVars>>

\* ------------------------------------------------------------ check_alerts
NoIter == [di_used |-> 0, len |-> 0, ahead |-> << >>]

NoAlert == << >>

\* a faulty comparison, strict on both sides
Triggered_strict(direction, current_price, target_price) ==
    \/ direction = "above" /\ current_price > target_price
    \/ direction = "below" /\ current_price < target_price

\* lines 246-253: whether the alert fires at the quoted price
Triggered(direction, current_price, target_price) ==
    \/ direction = "above" /\ current_price >= target_price
    \/ direction = "below" /\ current_price <= target_price

\* a faulty removal, which writes back what is left of the copy made before
\* the send
AfterSend_stale(ok, alerts, alert) == IF ok THEN ev_snap ELSE alerts

\* lines 256-260: the list `alerts` after `await send_message` returned (ok)
\* or raised: alerts.remove(alert) runs only after a send that returned, and
\* its ValueError, when the list no longer holds the alert, is swallowed by
\* the same except clause
AfterSend(ok, alerts, alert) ==
    IF ok /\ Contains(alerts, alert) THEN ListRemove(alerts, alert) ELSE alerts

\* a faulty job queue, which drops a job whose callback raised or returned
TickEnds_stops ==
    /\ ev_pc' = "stopped"
    /\ ev_iter' = NoIter
    /\ ev_user' = NoUser
    /\ ev_detached' = FALSE
    /\ ev_snap' = << >>
    /\ ev_alert' = NoAlert
    /\ ev_queried' = FALSE
    /\ sw_pre' = << >>
    /\ sw_gone' = EmptyBag
    /\ sw_created' = FALSE

\* the tick is over (it returned or raised): the job's locals are gone, and
\* the job stays in the queue that run_repeating put it in (line 1026)
TickEnds ==
    /\ ev_pc' = "idle"
    /\ ev_iter' = NoIter
    /\ ev_user' = NoUser
    /\ ev_detached' = FALSE
    /\ ev_snap' = << >>
    /\ ev_alert' = NoAlert
    /\ ev_queried' = FALSE
    /\ sw_pre' = << >>
    /\ sw_gone' = EmptyBag
    /\ sw_created' = FALSE

\* a faulty copy, which turns the list around
SliceCopy_reversed(s) == [i \in 1..Len(s) |-> s[Len(s) + 1 - i]]

\* alerts[:] (line 238): a new list with the same elements
SliceCopy(s) == s

\* the job queue calls check_alerts; line 237 makes the items() iterator
TickStart ==
    /\ ev_pc = "idle"
    /\ ev_pc' = "users"
    /\ ev_iter' = [di_used |-> Len(alerts_keys), len |-> Len(alerts_keys),
                   ahead |-> alerts_keys]
    /\ out' = << >>
    /\ paid' = NoPayload
    /\ UNCHANGED <<alertVars, otherStores, config, accepted, ev_user, ev_detached, ev_snap,
                   ev_alert, ev_queried, histVars>>

\* line 237, one step of the for loop over user_alerts.items(); line 238
\* copies the user's list
IterNext ==
    /\ ev_pc = "users"
    /\ paid' = NoPayload
    /\ UNCHANGED <<alertVars, otherStores, config, accepted>>
    /\ IF Len(alerts_keys) # ev_iter.di_used
         \* "dictionary changed size during iteration"
         THEN out' = <<Raise("RuntimeError")>> /\ TickEnds
       ELSE IF ev_iter.ahead = << >>
         THEN out' = << >> /\ TickEnds
       ELSE IF ev_iter.len = 0
         \* "dictionary keys changed during iteration"
         THEN out' = <<Raise("RuntimeError")>> /\ TickEnds
       ELSE /\ ev_pc' = "alerts"
            /\ ev_user' = Head(ev_iter.ahead)
            /\ ev_iter' = [ev_iter EXCEPT !.len = @ - 1, !.ahead = Tail(@)]
            /\ ev_detached' = FALSE
            /\ ev_snap' = SliceCopy(user_alerts[Head(ev_iter.ahead)])
            /\ ev_alert' = NoAlert
            /\ UNCHANGED ev_queried
            /\ sw_pre' = user_alerts[Head(ev_iter.ahead)]
            /\ sw_gone' = EmptyBag
            /\ sw_created' = FALSE
            /\ out' = << >>

\* lines 238-255, one step of the for loop over the copy: the price query
\* and the comparison
AlertNext(q) ==
    /\ ev_pc = "alerts"
    /\ UNCHANGED <<alertVars, otherStores, config, payHist>>
    /\ IF ev_snap = << >>
         THEN /\ ev_pc' = "users"
              /\ ev_user' = NoUser
              /\ ev_detached' = FALSE
              /\ sw_pre' = << >>
              /\ sw_gone' = EmptyBag
              /\ sw_created' = FALSE
              /\ out' = << >>
              /\ UNCHANGED <<ev_iter, ev_snap, ev_alert, ev_queried>>
         ELSE LET alert == Head(ev_snap)
                  query == [call |-> "get_crypto_price", ids |-> alert.crypto_id,
                            result |-> q]
              IN  IF q.kind = "nousd"
                    \* price_data[crypto_id]['usd'] raises KeyError
                    THEN out' = <<query, Raise("KeyError")>> /\ TickEnds
                    ELSE /\ out' = <<query>>
                         /\ ev_queried' = TRUE
                         /\ ev_snap' = Tail(ev_snap)
                         /\ IF /\ HasQuote(q)
                               /\ Triggered(alert.direction, q.usd, alert.target_price)
                              THEN ev_pc' = "send" /\ ev_alert' = alert
                              ELSE UNCHANGED <<ev_pc, ev_alert>>
                         /\ UNCHANGED <<ev_iter, ev_user, ev_detached, histVars>>

\* lines 256-260: send_message returns (ok) or raises
SendDone(ok) ==
    /\ ev_pc = "send"
    /\ ev_pc' = "alerts"
    /\ ev_alert' = NoAlert
    /\ out' = <<[call |-> "send_message", chat_id |-> ev_user, alert |-> ev_alert,
                 ok |-> ok]>>
    /\ IF ev_detached
         \* `alerts` is a list that /delalert emptied and took out of the dict
         THEN UNCHANGED user_alerts
         ELSE user_alerts' = Put(user_alerts, ev_user,
                                 AfterSend(ok, user_alerts[ev_user], ev_alert))
    /\ sw_gone' = IF ok /\ ~sw_created THEN sw_gone (+) SetToBag({ev_alert}) ELSE sw_gone
    /\ UNCHANGED <<alerts_keys, otherStores, config, payHist, ev_iter, ev_user, ev_detached,
                   ev_snap, ev_queried, sw_pre, sw_created>>

\* ------------------------------------------------------------ portfolio
PortfolioOf(u) == Get(user_portfolio, u, EmptyDict)

\* the argument lists of /add fed to the model
AddArgs ==
    { <<"btc">>, <<"btc", "abc">>, <<"btc", "1">>, <<"eth", "1">>,
      <<"bitcoin", "-1">>, <<"btc", "0">>, <<"btc", "9007199254740992">> }

\* the quantities the model lets a holding reach: within MaxQuantity of 0
\* or of 2^53
InQuantityRange(x) ==
    \/ x \in -MaxQuantity..MaxQuantity
    \/ x \in (TwoTo53 - MaxQuantity)..(TwoTo53 + MaxQuantity)

\* lines 654-660: the user's holdings after adding `amount` of crypto_id
MergeHolding(holdings, crypto_id, amount) ==
    IF crypto_id \in DOMAIN holdings
        THEN Put(holdings, crypto_id, FloatAdd(holdings[crypto_id], amount))
        ELSE Put(holdings, crypto_id, amount)

add_to_portfolio(user_id, args) ==
    /\ HandlersMayRun
    /\ workload = "portfolio"
    /\ UNCHANGED <<alertVars, user_favorites, user_balance, settled, config, payHist, evVars,
                   histVars>>
    /\ IF Len(args) < 2
         THEN out' = <<Reply("usage")>> /\ UNCHANGED user_portfolio
       ELSE IF ~IsFloat(args[2])
         THEN out' = <<Reply("bad_amount")>> /\ UNCHANGED user_portfolio
       ELSE \E q \in QuoteResults :
            IF ~HasQuote(q)
              THEN out' = <<Reply("not_found")>> /\ UNCHANGED user_portfolio
              ELSE LET crypto_id == find_crypto_id(args[1])
                       amount == ParseFloat(args[2])
                       merged == MergeHolding(PortfolioOf(user_id), crypto_id, amount)
                   IN  /\ InQuantityRange(merged[crypto_id])
                       /\ user_portfolio' = Put(user_portfolio, user_id, merged)
                       /\ out' = <<Reply("added")>>

RemoveArgs == { << >>, <<"btc">>, <<"ethereum">> }

remove_from_portfolio(user_id, args) ==
    /\ HandlersMayRun
    /\ workload = "portfolio"
    /\ UNCHANGED <<alertVars, user_favorites, user_balance, settled, config, payHist, evVars,
                   histVars>>
    /\ IF args = << >>
         THEN out' = <<Reply("usage")>> /\ UNCHANGED user_portfolio
       ELSE LET crypto_id == find_crypto_id(args[1])
            IN  IF \/ user_id \notin DOMAIN user_portfolio
                   \/ ~HasKey(user_portfolio[user_id], crypto_id)
                  THEN out' = <<Reply("not_in_portfolio")>> /\ UNCHANGED user_portfolio
                  ELSE LET rest == Del(user_portfolio[user_id], crypto_id)
                       IN  /\ user_portfolio' =
                                  IF DOMAIN rest = {} THEN Del(user_portfolio, user_id)
                                                      ELSE Put(user_portfolio, user_id, rest)
                           /\ out' = <<Reply("removed")>>

\* /portfolio: reads the holdings, changes nothing; a quote without 'usd'
\* makes line 618 raise KeyError
portfolio(user_id) ==
    /\ HandlersMayRun
    /\ workload = "portfolio"
    /\ IF DOMAIN PortfolioOf(user_id) = {}
         THEN out' = <<Reply("portfolio_empty")>>
         ELSE \E q \in QuoteResults :
                  out' = IF q.kind = "nousd" THEN <<Raise("KeyError")>>
                                            ELSE <<Reply("portfolio")>>
    /\ UNCHANGED <<alertVars, otherStores, config, payHist, evVars, histVars>>

\* ------------------------------------------------------------ favorites
FavoritesOf(u) == Get(user_favorites, u, << >>)

FavArgs == { << >>, <<"btc">>, <<"bitcoin">>, <<"eth">> }

add_favorite(user_id, args) ==
    /\ HandlersMayRun
    /\ workload = "favorites"
    /\ UNCHANGED <<alertVars, user_portfolio, user_balance, settled, config, payHist, evVars,
                   histVars>>
    /\ IF args = << >>
         THEN out' = <<Reply("usage")>> /\ UNCHANGED user_favorites
       ELSE \E q \in QuoteResults :
            IF ~HasQuote(q)
              THEN out' = <<Reply("not_found")>> /\ UNCHANGED user_favorites
              ELSE LET crypto_id == find_crypto_id(args[1])
                       had == FavoritesOf(user_id)
                   IN  IF ~Contains(had, crypto_id)
                         THEN /\ user_favorites' =
                                     Put(user_favorites, user_id, Append(had, crypto_id))
                              /\ out' = <<Reply("favorite_added")>>
                         ELSE /\ user_favorites' = Put(user_favorites, user_id, had)
                              /\ out' = <<Reply("already_favorite")>>

remove_favorite(user_id, args) ==
    /\ HandlersMayRun
    /\ workload = "favorites"
    /\ UNCHANGED <<alertVars, user_portfolio, user_balance, settled, config, payHist, evVars,
                   histVars>>
    /\ IF args = << >>
         THEN out' = <<Reply("usage")>> /\ UNCHANGED user_favorites
       ELSE LET crypto_id == find_crypto_id(args[1])
            IN  IF \/ user_id \notin DOMAIN user_favorites
                   \/ ~Contains(user_favorites[user_id], crypto_id)
                  THEN out' = <<Reply("not_in_favorites")>> /\ UNCHANGED user_favorites
                  ELSE LET rest == ListRemove(user_favorites[user_id], crypto_id)
                       IN  /\ user_favorites' =
                                  IF rest = << >> THEN Del(user_favorites, user_id)
                                                  ELSE Put(user_favorites, user_id, rest)
                           /\ out' = <<Reply("favorite_removed")>>

\* /favorites: reads the list, changes nothing (data.get('usd', 0) cannot raise)
favorites(user_id) ==
    /\ HandlersMayRun
    /\ workload = "favorites"
    /\ out' = <<Reply(IF FavoritesOf(user_id) = << >> THEN "no_favorites"
                                                       ELSE "favorites")>>
    /\ UNCHANGED <<alertVars, otherStores, config, payHist, evVars, histVars>>

\* ------------------------------------------------------------ balance, deposits
BalanceOf(u) == Get(user_balance, u, 0)

\* a faulty /balance, which stores the default it reads
balance_setdefault(user_id) ==
    /\ HandlersMayRun
    /\ workload = "payments"
    /\ user_balance' = Put(user_balance, user_id, BalanceOf(user_id))
    /\ out' = <<[call |-> "reply_text", text |-> "balance", amount |-> BalanceOf(user_id)]>>
    /\ paid' = NoPayload
    /\ UNCHANGED <<alertVars, user_portfolio, user_favorites, settled, accepted, config,
                   evVars, histVars>>

\* /balance: reads the balance, changes nothing
balance(user_id) ==
    /\ HandlersMayRun
    /\ workload = "payments"
    /\ out' = <<[call |-> "reply_text", text |-> "balance", amount |-> BalanceOf(user_id)]>>
    /\ paid' = NoPayload
    /\ UNCHANGED <<alertVars, otherStores, accepted, config, evVars, histVars>>

\* A string is a sequence of one-character strings.
Chars(n) == CASE n = 0 -> <<"0">> [] n = 1 -> <<"1">> [] n = 2 -> <<"2">>

DEPOSIT_PREFIX == <<"d", "e", "p", "o", "s", "i", "t", "_">>

\* faulty prefix tests: the prefix anywhere in the string, and the prefix alone
startswith_anywhere(str, prefix) ==
    \E i \in 1..(Len(str) - Len(prefix) + 1) :
        SubSeq(str, i, i + Len(prefix) - 1) = prefix

startswith_exact(str, prefix) == str = prefix

\* str.startswith
startswith(str, prefix) ==
    /\ Len(str) >= Len(prefix)
    /\ SubSeq(str, 1, Len(prefix)) = prefix

\* line 919: f"deposit_{user_id}_{int(datetime.now().timestamp())}"
invoice_payload(user_id, timestamp) ==
    DEPOSIT_PREFIX \o Chars(user_id) \o <<"_">> \o Chars(timestamp)

\* the argument lists of /deposit fed to the model
DepositArgs ==
    { << >>, <<"abc">>, <<"1.0.0">>, <<"0">>, <<"999">>, <<"999.99">>, <<"1000">>,
      <<"1024.09">>, <<"10000000">>, <<"10000000.01">>, <<"10000001">> }

\* line 895: args[0].replace('.', '').isdigit()
DigitsAndDots(str) == str # "abc"

\* line 903: float(str) raises ValueError
NotANumber(str) == str \in {"abc", "1.0.0"}

\* line 903: float(str), counted in hundredths
AmountOf(str) ==
    CASE str = "0" -> 0
      [] str = "999" -> 99900
      [] str = "999.99" -> 99999
      [] str = "1000" -> 100000
      [] str = "1024.09" -> 102409
      [] str = "10000000" -> 1000000000
      [] str = "10000000.01" -> 1000000001
      [] str = "10000001" -> 1000000100

MIN_AMOUNT == 100000        \* line 909: 1000, in hundredths
MAX_AMOUNT == 1000000000    \* line 914: 10000000, in hundredths

\* line 921: int(amount * 100) on IEEE doubles; 1024.09 * 100 is
\* 102408.99999999999, which int() truncates
amount_in_tiyin(amount) == IF amount = 102409 THEN 102408 ELSE amount

\* a faulty lower bound, which excludes the minimum itself
amount_rejection_strict(amount) ==
    IF amount <= 0 THEN "not_positive"
    ELSE IF amount <= MIN_AMOUNT THEN "below_minimum"
    ELSE IF amount > MAX_AMOUNT THEN "above_maximum"
    ELSE "none"

\* lines 904-916: the reply that turns the amount down, "none" when it passes
amount_rejection(amount) ==
    IF amount <= 0 THEN "not_positive"
    ELSE IF amount < MIN_AMOUNT THEN "below_minimum"
    ELSE IF amount > MAX_AMOUNT THEN "above_maximum"
    ELSE "none"

deposit(user_id, args) ==
    /\ HandlersMayRun
    /\ workload = "payments"
    /\ paid' = NoPayload
    /\ UNCHANGED <<alertVars, otherStores, accepted, config, evVars, histVars>>
    /\ IF ~CLICK_PROVIDER_TOKEN
         THEN out' = <<Reply("payments_unavailable")>>
       ELSE IF args = << >> \/ ~DigitsAndDots(args[1])
         THEN out' = <<Reply("usage")>>
       ELSE IF NotANumber(args[1])
         THEN out' = <<Reply("bad_format")>>
       ELSE LET amount == AmountOf(args[1])
            IN  IF amount_rejection(amount) # "none"
                  THEN out' = <<Reply(amount_rejection(amount))>>
                \* the clock gives the timestamp; send_invoice returns or raises
                ELSE \E timestamp \in Times, sent \in BOOLEAN :
                     LET invoice == [call |-> "send_invoice", chat_id |-> user_id,
                                     payload |-> invoice_payload(user_id, timestamp),
                                     amount |-> amount_in_tiyin(amount), ok |-> sent]
                     IN  out' = IF sent THEN <<invoice>>
                                        ELSE <<invoice, Reply("invoice_error")>>

\* the payloads a pre-checkout query or a payment confirmation may carry
Payloads ==
    {invoice_payload(u, t) : u \in Users, t \in Times}
        \cup { << >>, <<"d", "e", "p", "o", "s", "i", "t">>,
               <<"D", "e", "p", "o", "s", "i", "t", "_", "1">>,
               <<"x", "d", "e", "p", "o", "s", "i", "t", "_", "1">> }

\* query.answer(ok=...), which returns or raises
Answer(ok, raised) == [call |-> "answer", ok |-> ok, raised |-> raised]

pre_checkout_handler(user_id, payload) ==
    /\ HandlersMayRun
    /\ workload = "payments"
    /\ paid' = NoPayload
    /\ UNCHANGED <<alertVars, otherStores, config, evVars, histVars>>
    /\ IF ~startswith(payload, DEPOSIT_PREFIX)
         THEN /\ \E raised \in BOOLEAN : out' = <<Answer(FALSE, raised)>>
              /\ UNCHANGED accepted
         ELSE \/ /\ out' = <<Answer(TRUE, FALSE)>>
                 /\ accepted' = TRUE
              \* lines 957-959: the acceptance raised, a denial is sent
              \/ /\ \E raised \in BOOLEAN :
                        out' = <<Answer(TRUE, TRUE), Answer(FALSE, raised)>>
                 /\ UNCHANGED accepted

\* a faulty credit, which stores the amount instead of adding it
Credit_overwrite(balances, user_id, amount) == Put(balances, user_id, amount)

\* lines 972-975: the balances after `amount` was credited to user_id
Credit(balances, user_id, amount) ==
    Put(balances, user_id, Get(balances, user_id, 0) + amount)

\* filters.SUCCESSFUL_PAYMENT (line 1022) lets through only messages that
\* carry a payment, so line 966 never returns; total_amount / 100.0 major
\* units are total_amount hundredths
successful_payment_handler(user_id, payload, total_amount) ==
    /\ HandlersMayRun
    /\ workload = "payments"
    /\ BalanceOf(user_id) + total_amount <= MaxBalance
    /\ user_balance' = Credit(user_balance, user_id, total_amount)
    /\ settled' = Put(settled, user_id,
                      Get(settled, user_id, EmptyBag) (+) SetToBag({total_amount}))
    /\ out' = <<[call |-> "reply_text", text |-> "payment_processed",
                 amount |-> total_amount, balance |-> user_balance'[user_id]]>>
    /\ paid' = payload
    /\ UNCHANGED <<alertVars, user_portfolio, user_favorites, accepted, config, evVars,
                   histVars>>

Init ==
    /\ user_alerts = EmptyDict
    /\ alerts_keys = << >>
    /\ user_portfolio = EmptyDict
    /\ user_favorites = EmptyDict
    /\ user_balance = EmptyDict
    /\ ev_pc = "idle"
    /\ ev_iter = NoIter
    /\ ev_user = NoUser
    /\ ev_detached = FALSE
    /\ ev_snap = << >>
    /\ ev_alert = NoAlert
    /\ out = << >>
    /\ workload \in {"alerts", "portfolio", "favorites", "payments"}
    /\ CLICK_PROVIDER_TOKEN \in (IF workload = "payments" THEN BOOLEAN ELSE {TRUE})
    /\ settled = EmptyDict
    /\ accepted = FALSE
    /\ paid = NoPayload
    /\ ev_queried = FALSE
    /\ sw_pre = << >>
    /\ sw_gone = EmptyBag
    /\ sw_created = FALSE

\* the commands of each family, and the evaluator's steps
AlertCommands ==
    \/ \E u \in Users, a \in AlertArgs : create_alert(u, a)
    \/ \E u \in Users, a \in DelArgs : delete_alert(u, a)
    \/ \E u \in Users : list_alerts(u)

PortfolioCommands ==
    \/ \E u \in Users, a \in AddArgs : add_to_portfolio(u, a)
    \/ \E u \in Users, a \in RemoveArgs : remove_from_portfolio(u, a)
    \/ \E u \in Users : portfolio(u)

FavoriteCommands ==
    \/ \E u \in Users, a \in FavArgs : add_favorite(u, a)
    \/ \E u \in Users, a \in FavArgs : remove_favorite(u, a)
    \/ \E u \in Users : favorites(u)

PaymentSteps ==
    \/ \E u \in Users : balance(u)
    \/ \E u \in Users, a \in DepositArgs : deposit(u, a)
    \/ \E u \in Users, p \in Payloads : pre_checkout_handler(u, p)
    \/ \E u \in Users, p \in Payloads, t \in Totals :
           successful_payment_handler(u, p, t)

Evaluator ==
    \/ TickStart
    \/ IterNext
    \/ \E q \in QuoteResults : AlertNext(q)
    \/ \E ok \in BOOLEAN : SendDone(ok)

NextAlerts == AlertCommands \/ Evaluator

NextPayments == PaymentSteps \/ TickStart \/ IterNext

NextPortfolio == PortfolioCommands \/ TickStart \/ IterNext

NextFavorites == FavoriteCommands \/ TickStart \/ IterNext

Next ==
    AlertCommands \/ PortfolioCommands \/ FavoriteCommands \/ PaymentSteps \/ Evaluator

\* the runs in which the users use the alerts, and those in which they pay
InitAlerts == Init /\ workload = "alerts"

InitPayments == Init /\ workload = "payments"

SpecAlerts == InitAlerts /\ [][NextAlerts]_vars

SpecPayments == InitPayments /\ [][NextPayments]_vars

\* the runs in which the users keep a portfolio, and a list of favorites
InitPortfolio == Init /\ workload = "portfolio"

InitFavorites == Init /\ workload = "favorites"

SpecPortfolio == InitPortfolio /\ [][NextPortfolio]_vars

SpecFavorites == InitFavorites /\ [][NextFavorites]_vars

Spec == Init /\ [][Next]_vars

\* The job queue runs check_alerts every 60 seconds, the price request has a
\* timeout (line 86) and send_message returns or raises: a step of the
\* evaluator that can be taken is taken.
SpecAlertsFair == SpecAlerts /\ WF_vars(Evaluator)

\* the alert whose fate is followed: /alert btc 1 above
LiveAlert == NewAlert("bitcoin", 1, "above")

\* the tick evaluates alert a of user u, and the price service answers with a
\* quote that meets the alert's condition
MetEvaluation(u, a) ==
    /\ ev_user = u
    /\ ev_snap # << >>
    /\ Head(ev_snap) = a
    /\ \E q \in QuoteResults :
           /\ q.kind = "usd"
           /\ Triggered(a.direction, q.usd, a.target_price)
           /\ AlertNext(q)

\* the notification for alert a of user u is delivered
Delivery(u, a) == ev_user = u /\ ev_alert = a /\ SendDone(TRUE)

\* The environment of user 2's alert LiveAlert, which is bound to trigger:
\* ticks keep coming; whenever the ticks keep coming to evaluate the alert,
\* the quote eventually meets its condition; and whenever its notification
\* keeps being sent, a send eventually succeeds. Nothing is assumed of the
\* other alerts, nor of what the users do.
SpecAlertsLive ==
    /\ SpecAlerts
    /\ WF_vars(Evaluator)
    /\ SF_vars(MetEvaluation(2, LiveAlert))
    /\ SF_vars(Delivery(2, LiveAlert))

\* ================================================================ properties
\* what a step leaves in each user's collections (an absent key reads as empty)
AlertsAfter(u) == Get(user_alerts', u, << >>)

PortfolioAfter(u) == Get(user_portfolio', u, EmptyDict)

FavoritesAfter(u) == Get(user_favorites', u, << >>)

BalanceAfter(u) == Get(user_balance', u, 0)

\* the list s without its i-th element
Without(s, i) == [k \in 1..(Len(s) - 1) |-> IF k < i THEN s[k] ELSE s[k + 1]]

\* the list s without the first element equal to x
WithoutFirst(s, x) ==
    Without(s, CHOOSE i \in 1..Len(s) : s[i] = x /\ \A j \in 1..(i - 1) : s[j] # x)

Occurrences(s, x) == Cardinality({i \in 1..Len(s) : s[i] = x})

\* s is t with some elements left out, the others in their order
RECURSIVE IsSubSeq(_, _)
IsSubSeq(s, t) ==
    IF s = << >> THEN TRUE
    ELSE IF t = << >> THEN FALSE
    ELSE IF Head(s) = Head(t) THEN IsSubSeq(Tail(s), Tail(t)) \/ IsSubSeq(s, Tail(t))
    ELSE IsSubSeq(s, Tail(t))

Monus(a, b) == IF a >= b THEN a - b ELSE 0

\* ---------------------------------------------------------------- C1
\* C1: the evaluator removes an alert from its owner's stored list if and
\* only if the notification for it was sent: when send_message returned and
\* the owner's stored list holds the notified alert, the step takes (the
\* first occurrence of) it out of that list; when send_message raised,
\* user_alerts is unchanged; and no other step of the evaluator changes
\* user_alerts.
C1_RemovedIffSent ==
    [][ /\ \A ok \in BOOLEAN :
              SendDone(ok) =>
                  IF ok /\ Contains(AlertsOf(ev_user), ev_alert)
                    THEN /\ AlertsAfter(ev_user) = WithoutFirst(AlertsOf(ev_user), ev_alert)
                         /\ \A u \in Users \ {ev_user} : AlertsAfter(u) = AlertsOf(u)
                    ELSE user_alerts' = user_alerts
        /\ (TickStart \/ IterNext \/ \E q \in QuoteResults : AlertNext(q)) =>
              user_alerts' = user_alerts
      ]_vars

\* ---------------------------------------------------------------- C4
\* While the sweep is at a user, and /alert has stored nothing for them
\* since it got there: the user's live list is the list the sweep found
\* (sw_pre) without the alerts /delalert deleted and without the alerts
\* delivered (sw_gone), the rest in their order, nothing else lost or added.
C4_LiveIsPreMinusGone ==
    (ev_user # NoUser /\ ~sw_created) =>
        LET live == AlertsOf(ev_user)
        IN  /\ IsSubSeq(live, sw_pre)
            /\ \A i \in 1..Len(sw_pre) :
                   Occurrences(live, sw_pre[i]) =
                       Monus(Occurrences(sw_pre, sw_pre[i]), CopiesIn(sw_pre[i], sw_gone))
            /\ \A i \in 1..Len(live) : Occurrences(sw_pre, live[i]) > 0

\* Every sweep of a user copies the list that is stored for them when the
\* sweep gets there: what /delalert deleted before is not in the copy.
C4_SweepReadsLiveList ==
    [][(ev_user = NoUser /\ ev_user' # NoUser) =>
           /\ ev_user' \in DOMAIN user_alerts'
           /\ ev_snap' = user_alerts'[ev_user']]_vars

\* C4: a /delalert that deletes one of U's alerts while check_alerts is
\* suspended in a send of U's sweep leaves U's live list equal to the list
\* the sweep found minus the deleted alert and minus the delivered alerts,
\* the rest in their order; and later sweeps copy the live list, so that
\* the deleted alert is not evaluated in a later tick.
C4_DeleteDuringSweep == []C4_LiveIsPreMinusGone /\ C4_SweepReadsLiveList

\* the sweep found two different alerts; /delalert deleted the first while
\* its notification was being sent; the send then returned: the second alert
\* is what is left
C4_Witness ==
    /\ ev_user # NoUser
    /\ ~sw_created
    /\ Len(sw_pre) = 2
    /\ sw_pre[1] # sw_pre[2]
    /\ Len(out) = 1
    /\ out[1].call = "send_message"
    /\ out[1].ok
    /\ out[1].alert = sw_pre[1]
    /\ CopiesIn(sw_pre[1], sw_gone) = 2
    /\ AlertsOf(ev_user) = <<sw_pre[2]>>

\* ---------------------------------------------------------------- C6
\* C6: commands that add or remove alerts or user keys while the tick is
\* suspended on a send do not abort the tick before the remaining users are
\* evaluated: while the iterator has users ahead, the loop over the users
\* does not end with the error of a dict that changed during the iteration.
C6_TickToleratesCommands ==
    [][(IterNext /\ ev_iter.ahead # << >>) => out' # <<Raise("RuntimeError")>>]_vars

\* ---------------------------------------------------------------- C7
\* C7: an alert evaluated with a quote that carries a price goes to the send
\* if and only if (direction = above and price >= target) or (direction =
\* below and price <= target), so that price = target triggers in both
\* directions; an alert whose condition is not met is not sent and
\* user_alerts is unchanged.
C7_TriggeredIff ==
    [][\A q \in QuoteResults :
           (AlertNext(q) /\ ev_snap # << >> /\ q.kind = "usd") =>
               LET alert == Head(ev_snap)
                   met == \/ alert.direction = "above" /\ q.usd >= alert.target_price
                          \/ alert.direction = "below" /\ q.usd <= alert.target_price
               IN  /\ met <=> (ev_pc' = "send" /\ ev_alert' = alert)
                   /\ ~met => (ev_pc' = "alerts" /\ ev_alert' = NoAlert)
                   /\ user_alerts' = user_alerts
                   /\ (q.usd = alert.target_price) => ev_pc' = "send"
      ]_vars

\* a "below" alert sent at a price equal to its target
C7_Witness ==
    /\ ev_pc = "send"
    /\ ev_alert.direction = "below"
    /\ Len(out) = 1
    /\ out[1].call = "get_crypto_price"
    /\ out[1].result.kind = "usd"
    /\ out[1].result.usd = ev_alert.target_price

\* ---------------------------------------------------------------- C2
RECURSIVE BagSum(_)
BagSum(b) ==
    IF DOMAIN b = {} THEN 0
    ELSE LET x == CHOOSE y \in DOMAIN b : TRUE
         IN  x * b[x] + BagSum([y \in (DOMAIN b) \ {x} |-> b[y]])

\* every balance is the sum of the totals confirmed for its user, each
\* confirmation counted, and is not negative
C2_BalanceIsSumOfConfirmations ==
    \A u \in Users :
        /\ BalanceOf(u) = BagSum(Get(settled, u, EmptyBag))
        /\ BalanceOf(u) >= 0

C2_NoStepDecreasesABalance ==
    [][\A u \in Users : BalanceAfter(u) >= BalanceOf(u)]_vars

C3_OnlyCompleteChangesBalance ==
    [][(user_balance' # user_balance) =>
           \E u \in Users, p \in Payloads, t \in Totals :
               successful_payment_handler(u, p, t)]_vars

\* a user has a balance, and a deposit was then answered with an invoice
C3_Witness ==
    /\ user_balance # EmptyDict
    /\ Len(out) = 1
    /\ out[1].call = "send_invoice"

\* ---------------------------------------------------------------- C8
\* the argument is a number between 1000 and 10_000_000 currency units
AmountWithinBounds(args) ==
    /\ args # << >>
    /\ args[1] \in {"0", "999", "999.99", "1000", "1024.09", "10000000",
                    "10000000.01", "10000001"}
    /\ 1000 * 100 <= AmountOf(args[1])
    /\ AmountOf(args[1]) <= 10000000 * 100

InvoiceRequested(calls) == \E i \in 1..Len(calls) : calls[i].call = "send_invoice"

\* C8: deposit requests an invoice if and only if 1000 <= amount <=
\* 10_000_000 (999 and 10_000_001 are turned down, 1000 and 10_000_000
\* pass); an amount turned down requests no invoice and changes no stored
\* state.
C8_InvoiceIffWithinBounds ==
    [][\A u \in Users, a \in DepositArgs :
           deposit(u, a) =>
               /\ InvoiceRequested(out') <=> AmountWithinBounds(a)
               /\ UNCHANGED <<user_alerts, user_portfolio, user_favorites, user_balance>>
      ]_vars

\* C8 as the code has it: with CLICK_PROVIDER_TOKEN set, deposit requests an
\* invoice if and only if 1000 <= amount <= 10_000_000; without the token it
\* requests none; and it never changes stored state.
C8_InvoiceIffWithinBoundsAndToken ==
    [][\A u \in Users, a \in DepositArgs :
           deposit(u, a) =>
               /\ InvoiceRequested(out') <=> (CLICK_PROVIDER_TOKEN /\ AmountWithinBounds(a))
               /\ UNCHANGED <<user_alerts, user_portfolio, user_favorites, user_balance>>
      ]_vars

\* an invoice was requested for the largest amount that passes
C8_Witness ==
    /\ CLICK_PROVIDER_TOKEN
    /\ Len(out) >= 1
    /\ out[1].call = "send_invoice"
    /\ out[1].amount = 10000000 * 100

\* ---------------------------------------------------------------- C9
\* the payload begins with the eight characters d e p o s i t _
BeginsWithDeposit(payload) ==
    /\ Len(payload) >= 8
    /\ payload[1] = "d" /\ payload[2] = "e" /\ payload[3] = "p" /\ payload[4] = "o"
    /\ payload[5] = "s" /\ payload[6] = "i" /\ payload[7] = "t" /\ payload[8] = "_"

\* C9: for a payload that does not start with "deposit_",
\* pre_checkout_handler answers ok=False, never ok=True, and changes no
\* stored state.
C9_OtherPayloadsDenied ==
    [][\A u \in Users, p \in Payloads :
           (pre_checkout_handler(u, p) /\ ~BeginsWithDeposit(p)) =>
               /\ Len(out') = 1
               /\ out'[1].call = "answer"
               /\ out'[1].ok = FALSE
               /\ UNCHANGED <<user_alerts, user_portfolio, user_favorites, user_balance>>
      ]_vars

\* a single answer, a denial that went through: only a payload without the
\* prefix is answered so
C9_Witness == out = <<Answer(FALSE, FALSE)>>

\* ---------------------------------------------------------------- C10
\* C10: for a payload that starts with "deposit_", pre_checkout_handler
\* answers ok=True and never ok=False, however often the payload is
\* presented and whatever the outcome of the answer call.
C10_DepositPayloadsAlwaysAccepted ==
    [][\A u \in Users, p \in Payloads :
           (pre_checkout_handler(u, p) /\ BeginsWithDeposit(p)) =>
               /\ \E i \in 1..Len(out') : out'[i].call = "answer" /\ out'[i].ok
               /\ \A i \in 1..Len(out') : out'[i].call = "answer" => out'[i].ok
      ]_vars

\* C10 as the code has it: for a payload that starts with "deposit_" the
\* first answer is ok=True, however often the payload is presented; ok=False
\* is answered for it only after that answer call raised, and then always.
C10_AcceptedFirstDeniedOnlyAfterRaise ==
    [][\A u \in Users, p \in Payloads :
           (pre_checkout_handler(u, p) /\ BeginsWithDeposit(p)) =>
               /\ Len(out') >= 1
               /\ out'[1].call = "answer" /\ out'[1].ok
               /\ (\E i \in 1..Len(out') : out'[i].call = "answer" /\ ~out'[i].ok)
                      <=> out'[1].raised
               /\ UNCHANGED <<user_alerts, user_portfolio, user_favorites, user_balance>>
      ]_vars

\* the acceptance raised and the denial that followed went through
C10_Witness == out = <<Answer(TRUE, TRUE), Answer(FALSE, FALSE)>>

\* ---------------------------------------------------------------- C5
SameDict(a, b) == DOMAIN a = DOMAIN b /\ \A k \in DOMAIN a : a[k] = b[k]

SameAlerts(u) == AlertsAfter(u) = AlertsOf(u)

SamePortfolio(u) == SameDict(PortfolioAfter(u), PortfolioOf(u))

SameFavorites(u) == FavoritesAfter(u) = FavoritesOf(u)

SameBalance(u) == BalanceAfter(u) = BalanceOf(u)

\* the operations of the store, each on what is stored when it runs
AlertAppended(u) ==
    /\ Len(AlertsAfter(u)) = Len(AlertsOf(u)) + 1
    /\ SubSeq(AlertsAfter(u), 1, Len(AlertsOf(u))) = AlertsOf(u)

AlertRemoved(u) ==
    \E i \in 1..Len(AlertsOf(u)) : AlertsAfter(u) = Without(AlertsOf(u), i)

\* the amounts /add is given in the model
AddAmounts == {ParseFloat(a[2]) : a \in {x \in AddArgs : Len(x) >= 2 /\ IsFloat(x[2])}}

HoldingAdded(u) ==
    \E c \in DOMAIN PortfolioAfter(u), quantity \in AddAmounts :
        /\ DOMAIN PortfolioAfter(u) = DOMAIN PortfolioOf(u) \cup {c}
        /\ PortfolioAfter(u)[c] = FloatAdd(Get(PortfolioOf(u), c, 0), quantity)
        /\ \A d \in DOMAIN PortfolioOf(u) \ {c} : PortfolioAfter(u)[d] = PortfolioOf(u)[d]

HoldingRemoved(u) ==
    \E c \in DOMAIN PortfolioOf(u) :
        /\ DOMAIN PortfolioAfter(u) = DOMAIN PortfolioOf(u) \ {c}
        /\ \A d \in DOMAIN PortfolioAfter(u) : PortfolioAfter(u)[d] = PortfolioOf(u)[d]

FavoriteAdded(u) ==
    /\ Len(FavoritesAfter(u)) = Len(FavoritesOf(u)) + 1
    /\ SubSeq(FavoritesAfter(u), 1, Len(FavoritesOf(u))) = FavoritesOf(u)

FavoriteRemoved(u) ==
    \E i \in 1..Len(FavoritesOf(u)) : FavoritesAfter(u) = Without(FavoritesOf(u), i)

Credited(u) == \E t \in Totals : BalanceAfter(u) = BalanceOf(u) + t

OneOperation(u) ==
    \/ (AlertAppended(u) \/ AlertRemoved(u))
           /\ SamePortfolio(u) /\ SameFavorites(u) /\ SameBalance(u)
    \/ (HoldingAdded(u) \/ HoldingRemoved(u))
           /\ SameAlerts(u) /\ SameFavorites(u) /\ SameBalance(u)
    \/ (FavoriteAdded(u) \/ FavoriteRemoved(u))
           /\ SameAlerts(u) /\ SamePortfolio(u) /\ SameBalance(u)
    \/ Credited(u) /\ SameAlerts(u) /\ SamePortfolio(u) /\ SameFavorites(u)

Untouched(u) == SameAlerts(u) /\ SamePortfolio(u) /\ SameFavorites(u) /\ SameBalance(u)

RepliedWith(calls, text) ==
    Len(calls) = 1 /\ calls[1].call = "reply_text" /\ calls[1].text = text

\* C5: operations on one user's collections are linearizable.  Every step
\* of a handler or of the evaluator, at whatever suspension point of the
\* evaluator it runs, applies at most one operation of the store (append an
\* alert, remove one alert, add to or remove a holding, add or remove a
\* favorite, credit) to one user's collections as they are stored at that
\* moment, so every interleaving is a sequential execution of the same
\* operations; and the alert, quantity or credit a handler reports as added
\* is in the store after its step: nothing added is lost.
C5_Linearizable ==
    [][ /\ \/ \A u \in Users : Untouched(u)
           \/ \E u \in Users : OneOperation(u) /\ \A v \in Users \ {u} : Untouched(v)
        /\ RepliedWith(out', "alert_created") => \E u \in Users : AlertAppended(u)
        /\ RepliedWith(out', "added") => \E u \in Users : HoldingAdded(u)
        /\ RepliedWith(out', "favorite_added") => \E u \in Users : FavoriteAdded(u)
        /\ RepliedWith(out', "payment_processed") =>
               \E u \in Users : BalanceAfter(u) = BalanceOf(u) + out'[1].amount
      ]_vars

\* /alert stored an alert for the user whose notification was being sent,
\* the send then returned and the evaluator removed the notified alert: the
\* user still has an alert
C5_Witness ==
    /\ ev_user # NoUser
    /\ sw_created
    /\ Len(out) = 1
    /\ out[1].call = "send_message"
    /\ out[1].ok
    /\ ~ev_detached
    /\ Len(AlertsOf(ev_user)) = 1

OutstandingIds ==
    UNION {{user_alerts[u][i].crypto_id : i \in 1..Len(user_alerts[u])} :
               u \in DOMAIN user_alerts}

IsPriceQuery(c) == c.call = "get_crypto_price"

\* C12: a tick issues exactly one price query, for the distinct asset ids of
\* all outstanding alerts, and none per alert: a step of the evaluator that
\* calls get_crypto_price is the first of its tick to do so, and asks for the
\* ids of all the alerts stored.
C12_OneBatchedQueryPerTick ==
    [][\A i \in 1..Len(out') :
           IsPriceQuery(out'[i]) =>
               /\ ~ev_queried
               /\ {out'[i].ids} = OutstandingIds
      ]_vars

\* ---------------------------------------------------------------- C13
\* C13: an alert whose asset has no quote in the oracle's answer (the fetch
\* failed, or the asset is absent from the result) is skipped in that tick:
\* no notification is sent for it, user_alerts is unchanged, and the loop
\* goes on with the rest of the copy of the same user's alerts.
C13_NoQuoteSkipsAlert ==
    [][\A q \in QuoteResults :
           (AlertNext(q) /\ ev_snap # << >> /\ q.kind \in {"none", "absent"}) =>
               /\ ev_pc' = "alerts"
               /\ ev_snap' = Tail(ev_snap)
               /\ ev_user' = ev_user
               /\ ev_iter' = ev_iter
               /\ Len(out') = 1 /\ IsPriceQuery(out'[1])
               /\ user_alerts' = user_alerts
               /\ alerts_keys' = alerts_keys
      ]_vars

\* the fetch failed for the first of a user's two alerts: both are still
\* stored and the second is next
C13_Witness ==
    /\ ev_pc = "alerts"
    /\ Len(out) = 1
    /\ IsPriceQuery(out[1])
    /\ out[1].result.kind = "none"
    /\ Len(ev_snap) = 1
    /\ Len(AlertsOf(ev_user)) = 2

\* ---------------------------------------------------------------- C14
\* the last step was a step of check_alerts that an exception ended (a quote
\* without 'usd', or the dict of users changed during the iteration)
TickRaised ==
    /\ out # << >>
    /\ out[Len(out)].call = "raise"
    /\ (Len(out) = 2 \/ out[1].error = "RuntimeError")

\* the last step was a delivery that failed
SendFailed == Len(out) = 1 /\ out[1].call = "send_message" /\ ~out[1].ok

\* the last step was a price fetch that failed
FetchFailed == Len(out) = 1 /\ IsPriceQuery(out[1]) /\ out[1].result.kind = "none"

TickRuns == ev_pc = "users" /\ ev_iter.ahead = alerts_keys

\* An exception ends the tick and nothing else: the store is as it was, and
\* the job is idle.  A delivery or a fetch that failed does not even end the
\* tick.  A tick that starts iterates over the keys stored at that moment.
C14_ErrorsEndOnlyTheTick ==
    [][ /\ ((IterNext \/ \E q \in QuoteResults : AlertNext(q)) /\ TickRaised') =>
               /\ ev_pc' = "idle"
               /\ user_alerts' = user_alerts
               /\ alerts_keys' = alerts_keys
        /\ (SendFailed' \/ FetchFailed') => ev_pc' = "alerts"
        /\ TickStart =>
               /\ ev_iter'.ahead = alerts_keys'
               /\ ev_iter'.di_used = Len(alerts_keys')
      ]_vars

\* C14: the recurrence of check_alerts survives an error in any tick: after
\* a tick that a failed delivery or a failed fetch interrupted, or that a
\* malformed quote (KeyError) or a change of the dict of users during the
\* sweep (RuntimeError) ended, a next tick runs, over the alerts stored when
\* it starts.
C14_RecurrenceSurvivesErrors ==
    /\ C14_ErrorsEndOnlyTheTick
    /\ (TickRaised \/ SendFailed \/ FetchFailed) ~> TickRuns

\* a tick ended by the RuntimeError of the dict iterator, alerts being stored
C14_Witness ==
    /\ out = <<Raise("RuntimeError")>>
    /\ ev_pc = "idle"
    /\ TotalAlerts > 0

\* ---------------------------------------------------------------- C15
\* the step stored an alert for some user: their list grew by one at the end
StoredAlert ==
    \E u \in Users :
        /\ Len(AlertsAfter(u)) = Len(AlertsOf(u)) + 1
        /\ SubSeq(AlertsAfter(u), 1, Len(AlertsOf(u))) = AlertsOf(u)

\* C15: an alert is stored by /alert without any notification (the step that
\* stores it sends nothing and leaves the evaluator where it was); an alert
\* is notified only as the head of the copy a sweep made of the stored list;
\* and once its notification is delivered the alert is out of the store: the
\* owner's stored list holds one occurrence of it less than before, so that
\* no later sweep copies it and notifies it again.
C15_NotifiedOnceThenGone ==
    [][ /\ StoredAlert =>
               /\ out' = <<Reply("alert_created")>>
               /\ ev_pc' = ev_pc
               /\ ev_alert' = ev_alert
        /\ (ev_pc # "send" /\ ev_pc' = "send") =>
               /\ ev_snap # << >>
               /\ ev_alert' = Head(ev_snap)
        /\ (SendDone(TRUE) /\ Contains(AlertsOf(ev_user), ev_alert)) =>
               Occurrences(AlertsAfter(ev_user), ev_alert)
                   < Occurrences(AlertsOf(ev_user), ev_alert)
      ]_vars

\* ---------------------------------------------------------------- C16
AllQuantitiesNonNegative ==
    \A u \in DOMAIN user_portfolio :
        \A c \in DOMAIN user_portfolio[u] : user_portfolio[u][c] >= 0

\* C16: /add with a quantity <= 0 fails and leaves the portfolio as it was,
\* and every stored quantity is non-negative in every reachable state.
C16_NonPositiveQuantityRejected ==
    /\ []AllQuantitiesNonNegative
    /\ [][\A u \in Users, a \in AddArgs :
              (/\ add_to_portfolio(u, a)
               /\ Len(a) >= 2 /\ IsFloat(a[2]) /\ ParseFloat(a[2]) <= 0) =>
                  /\ user_portfolio' = user_portfolio
                  /\ out' # <<Reply("added")>>
         ]_vars

\* ---------------------------------------------------------------- C17
\* C17: every alert held in the store has a target price above zero.
C17_TargetPricePositive ==
    \A u \in DOMAIN user_alerts :
        \A i \in 1..Len(user_alerts[u]) : user_alerts[u][i].target_price > 0

\* ---------------------------------------------------------------- C18
DuplicateFree(s) == \A i, j \in 1..Len(s) : s[i] = s[j] => i = j

FavoritesDuplicateFree == \A u \in DOMAIN user_favorites : DuplicateFree(user_favorites[u])

\* a step keeps each list of favorites, or puts one asset that was not in it
\* at its end, or takes one asset out and keeps the others in their order
FavoritesKeepInsertionOrder ==
    \A u \in Users :
        LET before == FavoritesOf(u)
            after == FavoritesAfter(u)
        IN  \/ after = before
            \/ /\ Len(after) = Len(before) + 1
               /\ SubSeq(after, 1, Len(before)) = before
               /\ ~Contains(before, after[Len(after)])
            \/ /\ Len(after) = Len(before) - 1
               /\ IsSubSeq(after, before)

AddsPresentFavorite(u, a) ==
    /\ add_favorite(u, a)
    /\ a # << >>
    /\ Contains(FavoritesOf(u), find_crypto_id(a[1]))

C19_AdditiveMerge ==
    \A u \in DOMAIN user_portfolio :
        \A c \in {"bitcoin", "ethereum"}, a, b \in 1..MaxQuantity :
            LET h == user_portfolio[u]
            IN  /\ MergeHolding(MergeHolding(h, c, a), c, b)[c]
                       = MergeHolding(h, c, FloatAdd(a, b))[c]
                /\ c \notin DOMAIN h => MergeHolding(h, c, a)[c] = a

\* ---------------------------------------------------------------- C20
StoresUnchanged ==
    /\ user_alerts' = user_alerts
    /\ alerts_keys' = alerts_keys
    /\ user_portfolio' = user_portfolio
    /\ user_favorites' = user_favorites
    /\ user_balance' = user_balance

\* the argument lists that name an alert by a number, an asset to remove
DelIndexArgs == {a \in DelArgs : a # << >> /\ IsDigit(a[1])}

RemoveAssetArgs == RemoveArgs \ {<< >>}

UnfavAssetArgs == FavArgs \ {<< >>}

Refused(text) == out' = <<Reply(text)>> /\ StoresUnchanged

\* C20: a removal of something absent is answered 'not found' and changes no
\* store: /delalert with a number outside 1..len (0, a number beyond the
\* user's last alert, any number for a user without alerts), /remove of an
\* asset the user does not hold, /unfav of an asset that is not a favorite.
\* Stated step by step: a step of a handler that is not such a refusal is
\* not a removal of something absent, and a refusal changes no store.
C20_RemovalOfAbsentIsNotFound ==
    [][ /\ (workload = "alerts" /\ HandlersMayRun /\ ~Refused("alert_not_found")) =>
               \A u \in Users :
                   LET n == Len(AlertsOf(u))
                   IN  \A a \in DelIndexArgs :
                           (ParseInt(a[1]) \notin 1..n) => ~delete_alert(u, a)
        /\ (workload = "portfolio" /\ HandlersMayRun /\ ~Refused("not_in_portfolio")) =>
               \A u \in Users, a \in RemoveAssetArgs :
                   (find_crypto_id(a[1]) \notin DOMAIN PortfolioOf(u)) =>
                       ~remove_from_portfolio(u, a)
        /\ (workload = "favorites" /\ HandlersMayRun /\ ~Refused("not_in_favorites")) =>
               \A u \in Users, a \in UnfavAssetArgs :
                   (~Contains(FavoritesOf(u), find_crypto_id(a[1]))) =>
                       ~remove_favorite(u, a)
        /\ (\/ out' = <<Reply("alert_not_found")>>
            \/ out' = <<Reply("not_in_portfolio")>>
            \/ out' = <<Reply("not_in_favorites")>>) => StoresUnchanged
      ]_vars

\* /delalert 0 or /delalert 3 was refused to a user who has alerts
C20_Witness ==
    /\ out = <<Reply("alert_not_found")>>
    /\ \E u \in DOMAIN user_alerts : Len(user_alerts[u]) = 2

\* /remove was refused to a user who holds another asset
C20_WitnessPortfolio ==
    /\ out = <<Reply("not_in_portfolio")>>
    /\ \E u \in DOMAIN user_portfolio : DOMAIN user_portfolio[u] = {"bitcoin"}

\* ---------------------------------------------------------------- C21
\* C21: /delalert n with n in 1..len takes exactly the n-th alert of the
\* user's list, as the list stands at that step (a tick may be suspended in
\* a send), out of the list; the alert it reports is that alert; the other
\* alerts of the user keep their order, and no other user's list changes.
C21_DeletesNthAlert ==
    [][(workload = "alerts" /\ HandlersMayRun) =>
           \A u \in Users :
               LET before == AlertsOf(u)
               IN  \A a \in DelIndexArgs :
                       (ParseInt(a[1]) \in 1..Len(before) /\ delete_alert(u, a)) =>
                           /\ Len(out') = 1
                           /\ out'[1].text = "alert_deleted"
                           /\ out'[1].alert = before[ParseInt(a[1])]
                           /\ AlertsAfter(u) = Without(before, ParseInt(a[1]))
                           /\ \A v \in Users \ {u} : AlertsAfter(v) = AlertsOf(v)
      ]_vars

\* /delalert took the first of two different alerts, the second is left
C21_Witness ==
    /\ Len(out) = 1
    /\ out[1].call = "reply_text"
    /\ out[1].text = "alert_deleted"
    /\ \E u \in DOMAIN user_alerts :
           /\ Len(user_alerts[u]) = 1
           /\ user_alerts[u][1] # out[1].alert
           /\ user_alerts[u][1].direction = "below"

\* ---------------------------------------------------------------- C22
\* C22: /remove of an asset the user holds deletes the whole entry of that
\* asset, whatever quantity it holds, and leaves the user's other holdings,
\* and every other user's holdings, as they were.
C22_RemoveDeletesWholeEntry ==
    [][(workload = "portfolio" /\ HandlersMayRun) =>
           \A u \in Users, a \in RemoveAssetArgs :
               LET c == find_crypto_id(a[1])
                   before == PortfolioOf(u)
               IN  (c \in DOMAIN before /\ remove_from_portfolio(u, a)) =>
                       /\ out' = <<Reply("removed")>>
                       /\ DOMAIN PortfolioAfter(u) = DOMAIN before \ {c}
                       /\ \A d \in DOMAIN before \ {c} : PortfolioAfter(u)[d] = before[d]
                       /\ \A v \in Users \ {u} : PortfolioAfter(v) = PortfolioOf(v)
      ]_vars

\* /remove took one of a user's holdings; the user still holds ethereum
\* with an accumulated quantity of 2
C22_Witness ==
    /\ out = <<Reply("removed")>>
    /\ \E u \in DOMAIN user_portfolio :
           /\ DOMAIN user_portfolio[u] = {"ethereum"}
           /\ user_portfolio[u]["ethereum"] = 2

\* ---------------------------------------------------------------- C23
\* C23: for an amount within bounds that is a whole number of hundredths,
\* /deposit requests an invoice of exactly that number of minor units, and
\* a confirmation whose total is that number adds exactly the amount to the
\* balance. (Amounts and balances are counted in hundredths.)
C23_MinorUnitRoundTrip ==
    [][ /\ InvoiceRequested(out') =>
               \A u \in Users, a \in DepositArgs :
                   deposit(u, a) => out'[1].amount = AmountOf(a[1])
        /\ \A u \in Users :
               (BalanceAfter(u) # BalanceOf(u)) =>
                   \E t \in Totals :
                       /\ BalanceAfter(u) = BalanceOf(u) + t
                       /\ out'[1].amount = t
      ]_vars

\* ---------------------------------------------------------------- C24
\* the evaluator begins to send a notification
SendBegins == ev_pc # "send" /\ ev_pc' = "send"

\* C24: the evaluator sends a notification only for an alert that is in its
\* owner's stored list at the moment of sending.
C24_NotifiedOnlyIfStored ==
    [][SendBegins => Contains(AlertsAfter(ev_user'), ev_alert')]_vars

\* C24 as the code has it: a notification is sent only for an alert of the
\* copy that the sweep made of the owner's stored list when it reached the
\* owner (the copy only shrinks from its head, and the alert notified is its
\* head). At the moment of sending the alert is in the stored list unless
\* /delalert, or the delivery of an equal alert, took it out since the copy
\* was made; what was deleted before the copy was made is not in the copy.
C24_NotifiedFromTheCopy ==
    [][ /\ (ev_user = NoUser /\ ev_user' # NoUser) =>
               /\ ev_user' \in DOMAIN user_alerts'
               /\ ev_snap' = user_alerts'[ev_user']
               /\ ev_pc' = "alerts"
        /\ (ev_user # NoUser /\ ev_user' = ev_user /\ ev_snap' # ev_snap) =>
               ev_snap # << >> /\ ev_snap' = Tail(ev_snap)
        /\ SendBegins =>
               /\ ev_snap # << >>
               /\ ev_alert' = Head(ev_snap)
               /\ ev_user' = ev_user /\ ev_user # NoUser
               /\ ~sw_created' =>
                      \/ Contains(AlertsAfter(ev_user), ev_alert')
                      \/ CopiesIn(ev_alert', sw_gone') > 0
        /\ \A ok \in BOOLEAN :
               SendDone(ok) => out'[1].alert = ev_alert /\ out'[1].chat_id = ev_user
      ]_vars

\* a notification is being sent for an alert that /delalert took out of the
\* owner's list while the sweep was suspended in an earlier send
C24_Witness ==
    /\ ev_pc = "send"
    /\ ~sw_created
    /\ ~Contains(AlertsOf(ev_user), ev_alert)
    /\ Len(sw_pre) = 2
    /\ sw_pre[2] = ev_alert
    /\ sw_pre[1] # ev_alert

\* ---------------------------------------------------------------- C25
Stored(u, a) == Contains(AlertsOf(u), a)

\* every price query for bitcoin in the step just taken returned a quote
\* that meets LiveAlert's condition
BitcoinQuoteMet ==
    \A i \in 1..Len(out) :
        (out[i].call = "get_crypto_price" /\ out[i].ids = LiveAlert.crypto_id)
            => /\ out[i].result.kind = "usd"
               /\ Triggered(LiveAlert.direction, out[i].result.usd, LiveAlert.target_price)

\* C25: under fair ticks, if from some point on every quote for bitcoin
\* meets the condition of user 2's alert LiveAlert, and its fetches and
\* sends eventually succeed, the alert does not stay in the store for ever:
\* unless its owner deletes it, it is notified and removed, whatever the
\* other user does.
C25_StoredAlertIsEventuallyRemoved ==
    (<>[]BitcoinQuoteMet) => (Stored(2, LiveAlert) ~> ~Stored(2, LiveAlert))

\* ---------------------------------------------------------------- C26
\* what the four dicts hold for user u
DataOf(u) ==
    <<HasKey(user_alerts, u), AlertsOf(u), HasKey(user_portfolio, u), PortfolioOf(u),
      HasKey(user_favorites, u), FavoritesOf(u), HasKey(user_balance, u), BalanceOf(u)>>

Changed(u) == DataOf(u)' # DataOf(u)

\* the step is a command or a payment update of user u
CommandOf(u) ==
    \/ /\ workload = "alerts"
       /\ \/ \E a \in AlertArgs : create_alert(u, a)
          \/ \E a \in DelArgs : delete_alert(u, a)
          \/ list_alerts(u)
    \/ /\ workload = "portfolio"
       /\ \/ \E a \in AddArgs : add_to_portfolio(u, a)
          \/ \E a \in RemoveArgs : remove_from_portfolio(u, a)
          \/ portfolio(u)
    \/ /\ workload = "favorites"
       /\ \/ \E a \in FavArgs : add_favorite(u, a) \/ remove_favorite(u, a)
          \/ favorites(u)
    \/ /\ workload = "payments"
       /\ \/ \E p \in Payloads, t \in Totals : successful_payment_handler(u, p, t)
          \/ \E a \in DepositArgs : deposit(u, a)
          \/ \E p \in Payloads : pre_checkout_handler(u, p)
          \/ balance(u)

Notifies == out' # << >> /\ out'[Len(out')].call = "send_message"

\* C26: a step that changes what the dicts hold for a user v is not a
\* command of another user and, when it is a step of the evaluator, it is a
\* step for an alert of v; the sweep of a user's alerts works on a copy of
\* that user's list, and a notification for an alert of the copy goes to
\* that user and to nobody else.
C26_UserIsolation ==
    [][ /\ \A v \in Users :
               (<<alertVars, otherStores>>' # <<alertVars, otherStores>> /\ Changed(v)) =>
                   /\ \A u \in Users \ {v} : ~CommandOf(u)
                   /\ (ev_user = v /\ ev_pc = "send") \/ ~Evaluator
        /\ Notifies =>
               /\ Len(out') = 1
               /\ out'[1].chat_id = ev_user
               /\ out'[1].alert = ev_alert
               /\ sw_created \/ Contains(sw_pre, ev_alert)
               /\ \A v \in Users \ {ev_user} : ~Changed(v)
        /\ (ev_user' # ev_user /\ ev_user' # NoUser) => ev_snap' = AlertsOf(ev_user')
        /\ SendBegins => (ev_user' = ev_user /\ ev_alert' = Head(ev_snap))
      ]_vars

\* a notification was delivered to a user and took their alert out of the
\* store while the other user has an alert of their own
C26_Witness ==
    /\ Len(out) = 1
    /\ out[1].call = "send_message"
    /\ out[1].ok
    /\ ~Contains(AlertsOf(out[1].chat_id), out[1].alert)
    /\ \E v \in Users \ {out[1].chat_id} : AlertsOf(v) # << >>

\* ---------------------------------------------------------------- C27
\* the calls of a /deposit that obtained its invoice
Invoiced(calls) == Len(calls) = 1 /\ calls[1].call = "send_invoice" /\ calls[1].ok

\* C27: two successful deposit requests, one right after the other, never
\* carry the same payload id, whoever sends them.
C27_PayloadIdentifiesAttempt ==
    [][ (Invoiced(out) /\ Invoiced(out')) => out'[1].payload # out[1].payload ]_vars

\* ---------------------------------------------------------------- C28
\* the users whose id is embedded in a payload built by /deposit
EmbeddedIn(payload) == {w \in Users : \E t \in Times : payload = invoice_payload(w, t)}

\* C28: when a confirmation for a payload built by /deposit is processed
\* after a pre-checkout was accepted, the user whose balance changes is the
\* user whose id the payload embeds.
C28_CreditsThePayloadsUser ==
    [][ (accepted /\ paid' # NoPayload /\ EmbeddedIn(paid') # {})
            => \A v \in Users : BalanceOf(v)' # BalanceOf(v) => v \in EmbeddedIn(paid') ]_vars

\* ---------------------------------------------------------------- C29
NoEmptyAlerts == \A u \in DOMAIN user_alerts : user_alerts[u] # << >>

NoEmptyPortfolio == \A u \in DOMAIN user_portfolio : user_portfolio[u] # EmptyDict

NoEmptyFavorites == \A u \in DOMAIN user_favorites : user_favorites[u] # << >>

\* C29: no user id is a key of user_alerts, user_portfolio or
\* user_favorites with an empty collection.
C29_NoEmptyCollections == NoEmptyAlerts /\ NoEmptyPortfolio /\ NoEmptyFavorites

\* user_alerts holds an empty list for u
EmptyListOf(u) == HasKey(user_alerts, u) /\ user_alerts[u] = << >>

\* C29 (amended): user_portfolio and user_favorites never hold an empty
\* collection; user_alerts comes to hold an empty list for a user only when
\* the evaluator removes that user's last alert after a delivery, or when
\* /alert of a user without a key raises KeyError on a quote without 'usd';
\* /delalert of the last alert removes the key.
C29_EmptyListsOnlyFromEvaluator ==
    /\ [](NoEmptyPortfolio /\ NoEmptyFavorites)
    /\ [][ \A u \in Users :
               (EmptyListOf(u)' /\ ~EmptyListOf(u)) =>
                   IF HasKey(user_alerts, u)
                     THEN /\ ev_pc = "send" /\ ev_user = u
                          /\ out' = <<[call |-> "send_message", chat_id |-> u,
                                       alert |-> ev_alert, ok |-> TRUE]>>
                          /\ user_alerts[u] = <<ev_alert>>
                     ELSE out' = <<Raise("KeyError")>>
         ]_vars

\* the evaluator delivered the notification of a user's only alert and left
\* the user's key with an empty list
C29_Witness ==
    /\ Len(out) = 1
    /\ out[1].call = "send_message"
    /\ out[1].ok
    /\ EmptyListOf(out[1].chat_id)
====
